---------------------------- MODULE Spec2Model ----------------------------
(***************************************************************************)
(* A model of F3Page.py / F3Reference.py: the TagSet class, the tag        *)
(* normalizer, and DigestPage, which turns the source text of one wiki     *)
(* page and its metadata file into an F3Page.                              *)
(*                                                                         *)
(* A Python str is a sequence of one-character strings.  An Optional       *)
(* value is a sequence of length 0 (None) or 1 (the value).                *)
(***************************************************************************)
EXTENDS Integers, Sequences, FiniteSets, TLC

VARIABLES
    \* ---- DigestPage ----
    pc,           \* position in DigestPage
    files,        \* the two input files: what is on disk
    raw,          \* the decoded content of the .txt file
    source,       \* local `source`: the working text, each character with its index in raw
    src,          \* local `src` of the table loop
    tab,          \* local `tab` of the table loop (Optional)
    isredirect,   \* local `isredirect`
    links,        \* local `links`, the set of F3Reference, in insertion order
    fp,           \* the F3Page under construction
    xmlFuture,    \* state of the future executor.submit(LoadXML, ...)
    srcFuture,    \* state of the future executor.submit(LoadSource, ...)
    result,       \* what the call gave its caller: "none" (still running), "page", "absent", "raised"
    consumed,     \* indices of raw removed by the redirect, category and html passes
    refSpans,     \* for every F3Reference built: the indices of raw its bracket span came from
    passes,       \* the markup passes run so far, in order
    \* ---- TagSet ----
    ts,           \* a TagSet object (Optional: None before construction)
    put,          \* every value handed to the constructor or to add
    tsRaised,     \* TRUE once a TagSet call raised
    \* ---- normalize ----
    nx,           \* the argument
    ny,           \* normalize(nx)           (Optional: None before the call)
    nz            \* normalize(normalize(nx)) (Optional)

digestVars == <<pc, files, raw, source, src, tab, isredirect, links, fp, xmlFuture,
                srcFuture, result, consumed, refSpans, passes>>
tagVars    == <<ts, put, tsRaised>>
normVars   == <<nx, ny, nz>>
vars       == <<digestVars, tagVars, normVars>>

None       == <<>>
Some(x)    == <<x>>

---------------------------------------------------------------------------
(* Characters and the str methods the code uses.                           *)

LowerCase == <<"a","b","c","d","e","f","g","h","i","j","k","l","m",
               "n","o","p","q","r","s","t","u","v","w","x","y","z">>
UpperCase == <<"A","B","C","D","E","F","G","H","I","J","K","L","M",
               "N","O","P","Q","R","S","T","U","V","W","X","Y","Z">>

\* str.upper() of one character
Upper(c) == IF \E i \in 1..Len(LowerCase) : LowerCase[i] = c
            THEN UpperCase[CHOOSE i \in 1..Len(LowerCase) : LowerCase[i] = c]
            ELSE c

\* str.lower() of one character (what re.IGNORECASE compares)
Lower(c) == IF \E i \in 1..Len(UpperCase) : UpperCase[i] = c
            THEN LowerCase[CHOOSE i \in 1..Len(UpperCase) : UpperCase[i] = c]
            ELSE c

\* the characters \s matches and str.strip() removes
IsSpace(c) == c \in {" ", "\n", "\t"}

SubStr(s, a, b) == IF a > b THEN <<>> ELSE SubSeq(s, a, b)

\* s[i:i+len(lit)] == lit, compared through lower() when ci
LitAt(s, i, lit, ci) ==
    /\ i >= 1
    /\ i + Len(lit) - 1 <= Len(s)
    /\ \A k \in 1..Len(lit) :
          IF ci THEN Lower(s[i + k - 1]) = Lower(lit[k]) ELSE s[i + k - 1] = lit[k]

\* the position after the longest run of \s characters starting at i
SkipSpace(s, i) ==
    LET stops == {j \in i..Len(s) : ~IsSpace(s[j])}
    IN  IF stops = {} THEN Len(s) + 1 ELSE CHOOSE j \in stops : \A k \in stops : j <= k

Min(S) == CHOOSE x \in S : \A y \in S : x <= y
Max(S) == CHOOSE x \in S : \A y \in S : x >= y

\* str.strip()
Strip(s) ==
    LET keep == {i \in 1..Len(s) : ~IsSpace(s[i])}
    IN  IF keep = {} THEN <<>> ELSE SubSeq(s, Min(keep), Max(keep))

\* str.replace("_", " ")
ReplaceUnderscores(s) == [i \in 1..Len(s) |-> IF s[i] = "_" THEN " " ELSE s[i]]

\* str.split(sep): the pieces between the non-overlapping occurrences of sep, left to right
RECURSIVE SplitFrom(_, _, _, _)
SplitFrom(s, sep, from, i) ==
    IF i + Len(sep) - 1 > Len(s) THEN <<SubStr(s, from, Len(s))>>
    ELSE IF LitAt(s, i, sep, FALSE)
         THEN <<SubStr(s, from, i - 1)>> \o SplitFrom(s, sep, i + Len(sep), i + Len(sep))
         ELSE SplitFrom(s, sep, from, i + 1)
Split(s, sep) == SplitFrom(s, sep, 1, 1)

\* "|" in s  and  s[:s.index("|")]
HasPipe(s)    == \E i \in 1..Len(s) : s[i] = "|"
BeforePipe(s) == SubStr(s, 1, Min({i \in 1..Len(s) : s[i] = "|"}) - 1)

---------------------------------------------------------------------------
(* normalize (F3Page.py 64-82).  val[0] on the empty string raises         *)
(* IndexError: the result is then the value IndexError, which is no str.   *)

IndexError == <<"IndexError">>

Overrides(v) ==
    CASE v = <<"U","s">>     -> <<"U","S">>
      [] v = <<"U","k">>     -> <<"U","K">>
      [] v = <<"N","z">>     -> <<"N","Z">>
      [] v = <<"A","p","a">> -> <<"A","P","A">>
      [] v = <<"I","a">>     -> <<"I","A">>
      [] v = <<"F","i","r","s","t"," ","f","a","n","d","o","m">>
                             -> <<"F","i","r","s","t"," ","F","a","n","d","o","m">>
      [] OTHER               -> v

normalize(val) ==
    IF Len(val) = 1 THEN <<Upper(val[1])>>
    ELSE IF Len(val) = 0 THEN IndexError
    ELSE Overrides(ReplaceUnderscores(<<Upper(val[1])>> \o Tail(val)))

---------------------------------------------------------------------------
(* The regular expressions DigestPage hands to SearchAndReplace and        *)
(* SearchAndExtractBounded.  Each Search... is re.search of that pattern   *)
(* on the str s: the leftmost match, as [ms, me, gs, ge] (first and last   *)
(* index of the match and of its group 1), or None.  "." matches every     *)
(* character but "\n"; \s* is greedy and (.+?) lazy.                       *)

Match(ms, me, gs, ge) == [ms |-> ms, me |-> me, gs |-> gs, ge |-> ge]

NoNewline(s, a, b) == \A m \in a..b : s[m] # "\n"

\* where CLOSE has to start after a group that ends at e
CloseAt(s, e, spaceBeforeClose) == IF spaceBeforeClose THEN SkipSpace(s, e + 1) ELSE e + 1

\* of the <<group start, group end>> pairs that give a match: the latest start (\s* is
\* greedy) and for it the earliest end ((.+?) is lazy)
PickGroup(pairs) ==
    IF pairs = {} THEN None
    ELSE Some(CHOOSE p \in pairs :
                 \A q \in pairs : q[1] < p[1] \/ (q[1] = p[1] /\ p[2] <= q[2]))

\* \s*(.+?)CLOSE  or  \s*(.+?)\s*CLOSE  tried at position a: <<gs, ge>> of group 1 or None
LazyGroup(s, a, greedySpace, close, spaceBeforeClose) ==
    PickGroup({p \in (a..(IF greedySpace THEN SkipSpace(s, a) ELSE a)) \X (a..Len(s)) :
                 /\ p[1] <= p[2]
                 /\ NoNewline(s, p[1], p[2])
                 /\ LitAt(s, CloseAt(s, p[2], spaceBeforeClose), close, FALSE)})

\* the match that starts at i and has the group g ending before CLOSE
GroupMatch(s, i, g, close, spaceBeforeClose) ==
    IF g = None THEN None
    ELSE Some(Match(i, CloseAt(s, g[1][2], spaceBeforeClose) + Len(close) - 1,
                    g[1][1], g[1][2]))

DisplayTitleLit == <<"{","{","d","i","s","p","l","a","y","t","i","t","l","e",":">>
RedirectLit     == <<"#","r","e","d","i","r","e","c","t">>
CategoryLit     == <<"[","[","c","a","t","e","g","o","r","y",":">>
HtmlOpenLit     == <<"[","[","h","t","m","l","]","]">>
HtmlCloseLit    == <<"[","[","/","h","t","m","l","]","]">>
OpenLit         == <<"[","[">>
CloseLit        == <<"]","]">>
BraceCloseLit   == <<"}","}">>
TabLit          == <<"<","t","a","b">>
HeadLit         == <<"h","e","a","d","=">>
TopLit          == <<"t","o","p">>
TabEndLit       == <<"<","/","t","a","b",">">>
NewlineLit      == <<"\n">>
CellSepLit      == <<"|","|">>

\* "^{{displaytitle:\s*(.+?)\}\}", IGNORECASE
SearchDisplayTitle(s) ==
    IF ~LitAt(s, 1, DisplayTitleLit, TRUE) THEN None
    ELSE GroupMatch(s, 1, LazyGroup(s, 1 + Len(DisplayTitleLit), TRUE, BraceCloseLit, FALSE),
                    BraceCloseLit, FALSE)

\* "^#redirect\s*\[\[(.+?)\]\]", IGNORECASE
SearchRedirect(s) ==
    IF ~(/\ LitAt(s, 1, RedirectLit, TRUE)
         /\ LitAt(s, SkipSpace(s, 1 + Len(RedirectLit)), OpenLit, FALSE)) THEN None
    ELSE GroupMatch(s, 1, LazyGroup(s, SkipSpace(s, 1 + Len(RedirectLit)) + 2, FALSE,
                                    CloseLit, FALSE),
                    CloseLit, FALSE)

\* "\[\[category:\s*(.+?)\s*\]\]", IGNORECASE
CategoryAt(s, i) ==
    IF ~LitAt(s, i, CategoryLit, TRUE) THEN None
    ELSE GroupMatch(s, i, LazyGroup(s, i + Len(CategoryLit), TRUE, CloseLit, TRUE),
                    CloseLit, TRUE)

\* the match of the html pattern from i to the earliest of the ends
HtmlMatch(i, ends) ==
    IF ends = {} THEN None
    ELSE Some(Match(i, Min(ends) + Len(HtmlCloseLit) - 1, i + Len(HtmlOpenLit), Min(ends) - 1))

\* '\[\[html\]\].*?\[\[/html\]\]', IGNORECASE (no group)
HtmlAt(s, i) ==
    IF ~LitAt(s, i, HtmlOpenLit, TRUE) THEN None
    ELSE HtmlMatch(i, {e \in (i + Len(HtmlOpenLit))..Len(s) :
                          /\ NoNewline(s, i + Len(HtmlOpenLit), e - 1)
                          /\ LitAt(s, e, HtmlCloseLit, TRUE)})

\* the position after the longest run of [^\|\[\]] characters starting at i
LinkTextEnd(s, stops) == IF stops = {} THEN Len(s) + 1 ELSE Min(stops)
SkipLinkText(s, i) == LinkTextEnd(s, {j \in i..Len(s) : s[j] \in {"|", "[", "]"}})

\* a simple link from i whose text ends before r
SimpleLinkMatch(s, i, r) ==
    IF r > i + 2 /\ LitAt(s, r, CloseLit, FALSE) THEN Some(Match(i, r + 1, i + 2, r - 1))
    ELSE None

\* "\[\[([^\|\[\]]+?)\]\]"
SimpleLinkAt(s, i) ==
    IF ~LitAt(s, i, OpenLit, FALSE) THEN None ELSE SimpleLinkMatch(s, i, SkipLinkText(s, i + 2))

\* a link from i whose target ends before r1 and whose display text ends before r2
PipeLinkMatch(s, i, r1, r2) ==
    IF /\ r1 > i + 2 /\ r1 <= Len(s) /\ s[r1] = "|"
       /\ r2 > r1 + 1 /\ LitAt(s, r2, CloseLit, FALSE)
    THEN Some(Match(i, r2 + 1, i + 2, r2 - 1)) ELSE None

PipeLinkFrom(s, i, r1) == PipeLinkMatch(s, i, r1, SkipLinkText(s, r1 + 1))

\* "\[\[([^\|\[\]]+?\|[^\|\[\]]+?)\]\]"
PipeLinkAt(s, i) ==
    IF ~LitAt(s, i, OpenLit, FALSE) THEN None ELSE PipeLinkFrom(s, i, SkipLinkText(s, i + 2))

\* the pattern of one SearchAndReplace call, tried at position i
PatternAt(pat, s, i) ==
    CASE pat = "displaytitle" -> IF i = 1 THEN SearchDisplayTitle(s) ELSE None
      [] pat = "redirect"     -> IF i = 1 THEN SearchRedirect(s) ELSE None
      [] pat = "category"     -> CategoryAt(s, i)
      [] pat = "html"         -> HtmlAt(s, i)
      [] pat = "simplelink"   -> SimpleLinkAt(s, i)
      [] pat = "pipelink"     -> PipeLinkAt(s, i)

\* of the matches at the single positions, the leftmost
Leftmost(ms) ==
    IF ms = {None} \/ ms = {} THEN None
    ELSE CHOOSE m \in ms \ {None} : \A n \in ms \ {None} : m[1].ms <= n[1].ms

\* re.search(pattern, s): the match at the leftmost position that has one
Search(pat, s) == Leftmost({PatternAt(pat, s, i) : i \in 1..Len(s)})

\* "head=[\"]?top[\"]?>" at q: the index of the closing ">" or 0
OptQuote(s, q) == IF LitAt(s, q, <<"\"">>, FALSE) THEN q + 1 ELSE q
TabClose(s, z) == IF LitAt(s, z, <<">">>, FALSE) THEN z ELSE 0
TabTop(s, t)   == IF LitAt(s, t, TopLit, FALSE) THEN TabClose(s, OptQuote(s, t + Len(TopLit)))
                  ELSE 0
TabHead(s, a, w) ==
    IF w > a /\ LitAt(s, w, HeadLit, FALSE) THEN TabTop(s, OptQuote(s, w + Len(HeadLit)))
    ELSE 0

\* "<tab(\s+head=[\"]?top[\"]?)?>" tried at i: the index of the closing ">" or 0
TabStartAt(s, i) ==
    IF ~LitAt(s, i, TabLit, FALSE) THEN 0
    ELSE IF LitAt(s, i + Len(TabLit), <<">">>, FALSE) THEN i + Len(TabLit)
    ELSE TabHead(s, i + Len(TabLit), SkipSpace(s, i + Len(TabLit)))

---------------------------------------------------------------------------
(* The helpers DigestPage imports from HelpersPackage.                     *)

\* the text is a sequence of cells <<character, index in raw>>
Cells(s)  == [k \in 1..Len(s) |-> <<s[k], k>>]
Ch(t)     == [k \in 1..Len(t) |-> t[k][1]]
IdxOf(t, a, b) == {t[k][2] : k \in a..b}
Cut(t, a, b)   == SubStr(t, 1, a - 1) \o SubStr(t, b + 1, Len(t))

\* SearchAndReplace(pattern, inputstr, "", numGroups, caseinsensitive): search, record
\* group 1 of the match, remove the match, and search again until nothing matches.
\* found: the groups; text: what is left; spans: the raw indices of each removed match.
RECURSIVE SearchAndReplaceFrom(_, _, _, _)
ReplaceMatch(pat, t, found, spans, m) ==
    IF m = None THEN [found |-> found, text |-> t, spans |-> spans]
    ELSE SearchAndReplaceFrom(pat, Cut(t, m[1].ms, m[1].me),
                              Append(found, SubStr(Ch(t), m[1].gs, m[1].ge)),
                              Append(spans, IdxOf(t, m[1].ms, m[1].me)))
SearchAndReplaceFrom(pat, t, found, spans) ==
    ReplaceMatch(pat, t, found, spans, Search(pat, Ch(t)))
SearchAndReplace(pat, t) == SearchAndReplaceFrom(pat, t, <<>>, <<>>)

\* the region between the end of the start tag and the first end tag after it
Bounded(s, loc, ends) ==
    IF ends = {} THEN [tab |-> None, src |-> s]
    ELSE [tab |-> Some(SubStr(s, loc, Min(ends) - 1)),
          src |-> SubStr(s, Min(ends) + Len(TabEndLit), Len(s))]
BoundedFrom(s, loc) == Bounded(s, loc, {e \in loc..Len(s) : LitAt(s, e, TabEndLit, FALSE)})
BoundedAt(s, starts) ==
    IF starts = {} THEN [tab |-> None, src |-> s]
    ELSE BoundedFrom(s, Max({TabStartAt(s, i) : i \in {Min(starts)}}) + 1)

\* SearchAndExtractBounded(source, startpattern, "</tab>"): the text between the first
\* start tag and the first end tag after it, and the text after that end tag;
\* (None, source) when there is no such region.
SearchAndExtractBounded(s) == BoundedAt(s, {i \in 1..Len(s) : TabStartAt(s, i) > 0})

\* WikiUrlnameToWikiPagename: underscores of a URL name are the spaces of the page name
WikiUrlnameToWikiPagename(s) == ReplaceUnderscores(s)

\* WikiRedirectToPagename: first letter capitalised, underscores to spaces
WikiRedirectToPagename(s) ==
    IF s = <<>> THEN s ELSE ReplaceUnderscores(<<Upper(s[1])>> \o Tail(s))

---------------------------------------------------------------------------
(* TagSet (F3Page.py 84-125) as operations on the object [set, normalized] *)

\* __init__: the tag, when given, goes into the set as it is
TagSetInit(tag, Normalized) ==
    [set |-> IF tag = None THEN {} ELSE {tag[1]}, normalized |-> Normalized]

\* add raises when normalize does
TagSetAddRaises(t, vals) == t.normalized /\ \E v \in vals : normalize(v) = IndexError

\* add: vals is the set made of the list, set or single str handed in
TagSetAdd(t, vals) ==
    [t EXCEPT !.set = @ \cup (IF t.normalized THEN {normalize(v) : v \in vals} ELSE vals)]

\* __contains__
TagSetContainsRaises(t, val) == t.normalized /\ normalize(val) = IndexError
TagSetContains(t, val) == (IF t.normalized THEN normalize(val) ELSE val) \in t.set

---------------------------------------------------------------------------
(* F3Reference (F3Reference.py 7-25) and the set `links` of them.          *)

F3Reference(display, parent, wikiname) ==
    [LinkWikiName |-> wikiname, LinkDisplayText |-> display,
     ParentPageName |-> parent, FanacURL |-> <<>>]

\* F3Reference compared by identity, as a dataclass made with eq=False would be
F3ReferenceIs(a, b) == FALSE

\* the dataclass __eq__: the tuples of the four fields are equal.  (__hash__ is the sum
\* of the four fields' hashes, so references that are equal hash alike.)
F3ReferenceEq(a, b) ==
    /\ a.LinkWikiName = b.LinkWikiName
    /\ a.LinkDisplayText = b.LinkDisplayText
    /\ a.ParentPageName = b.ParentPageName
    /\ a.FanacURL = b.FanacURL

\* set.add: nothing happens when the set holds an equal element
SetAdd(set, r) ==
    IF \E i \in 1..Len(set) : F3ReferenceEq(set[i], r) THEN set ELSE Append(set, r)

RECURSIVE SetAddAll(_, _)
SetAddAll(set, rs) == IF rs = <<>> THEN set ELSE SetAddAll(SetAdd(set, Head(rs)), Tail(rs))

\* the orders in which the elements at the positions ix can be listed
RECURSIVE Orders(_)
Orders(ix) ==
    IF ix = {} THEN {<<>>}
    ELSE UNION {{<<i>> \o o : o \in Orders(ix \ {i})} : i \in ix}

\* list(set): the elements in some order
ListsOf(set) == {[k \in 1..Len(o) |-> set[o[k]]] : o \in Orders(1..Len(set))}

---------------------------------------------------------------------------
(* F3Table (F3Page.py 15-53) and the body of the table loop (462-478).     *)

F3Table == [Headers |-> None, Rows |-> None]

\* [l.strip() for l in line.split("||")]
CellsOf(line) == LET parts == Split(line, CellSepLit)
                 IN  [i \in 1..Len(parts) |-> Strip(parts[i])]

AppendRow(f3t, val) ==
    [f3t EXCEPT !.Rows = IF @ = None THEN Some(<<val>>) ELSE Some(Append(@[1], val))]

\* the for loop without its `if len(line) == 0: continue`
RECURSIVE TableLinesKeepBlank(_, _)
TableLinesKeepBlank(f3t, lines) ==
    IF lines = <<>> THEN f3t
    ELSE IF f3t = None
         THEN TableLinesKeepBlank(Some([F3Table EXCEPT !.Headers = Some(CellsOf(Head(lines)))]),
                                  Tail(lines))
         ELSE TableLinesKeepBlank(Some(AppendRow(f3t[1], CellsOf(Head(lines)))), Tail(lines))

\* the for loop over the lines of a region; f3t is Optional
RECURSIVE TableLines(_, _)
TableLines(f3t, lines) ==
    IF lines = <<>> THEN f3t
    ELSE IF Len(Head(lines)) = 0 THEN TableLines(f3t, Tail(lines))
    ELSE IF f3t = None
         THEN TableLines(Some([F3Table EXCEPT !.Headers = Some(CellsOf(Head(lines)))]),
                         Tail(lines))
         ELSE TableLines(Some(AppendRow(f3t[1], CellsOf(Head(lines)))), Tail(lines))

\* what one region adds to fp.Table: nothing, or the one value f3t (which may be None)
TableOfRegion(region) ==
    LET lines == Split(region, NewlineLit)
    IN  IF Len(lines) > 1 THEN <<TableLines(None, lines)>> ELSE <<>>

---------------------------------------------------------------------------
(* The inputs of one DigestPage call.                                      *)

MaxFrags == 2

\* how a source file may begin
Prefixes ==
  {
    <<>>,   \* 
    <<"#","r","e","d","i","r","e","c","t"," ","[","[","t","_","a","]","]">>,   \* #redirect [[t_a]]
    <<"#","R","E","D","I","R","E","C","T","[","[","B","]","]","\n">>,   \* #REDIRECT[[B]]\n
    <<"{","{","d","i","s","p","l","a","y","t","i","t","l","e",":"," ","D","t","}","}">>,   \* {{displaytitle: Dt}}
    <<"{","{","D","i","s","p","l","a","y","T","i","t","l","e",":","D","t","}","}","#","R","e","d","i","r","e","c","t"," "," ","[","[","t","_","a","]","]">>   \* {{DisplayTitle:Dt}}#Redirect  [[t_a]]
  }

\* the pieces of markup a source file is made of
Fragments ==
  <<
    <<"[","[","C","a","t","e","g","o","r","y",":","F","a","n","|","F","]","]">>,   \* [[Category:Fan|F]]
    <<"[","[","c","a","t","e","g","o","r","y",":"," ","u","s"," ","]","]">>,   \* [[category: us ]]
    <<"[","[","T","_","a","]","]">>,   \* [[T_a]]
    <<"[","["," ","T","_","a"," ","]","]">>,   \* [[ T_a ]]
    <<"[","[","T","_","a","|","D","]","]">>,   \* [[T_a|D]]
    <<"[","[","B","]","]">>,   \* [[B]]
    <<"[","[","h","t","m","l","]","]","[","[","X","]","]","[","[","/","h","t","m","l","]","]">>,   \* [[html]][[X]][[/html]]
    <<"[","[","H","T","M","L","]","]","\n","[","[","Y","]","]","\n","[","[","/","H","T","M","L","]","]">>,   \* [[HTML]]\n[[Y]]\n[[/HTML]]
    <<"<","t","a","b"," ","h","e","a","d","=","t","o","p",">","\n","A","|","|","B","\n","1"," ","|","|"," ","2","\n","\n","3","\n","<","/","t","a","b",">">>,   \* <tab head=top>\nA||B\n1 || 2\n\n3\n</tab>
    <<"<","t","a","b",">","\n","A","|","|","B","\n","<","/","t","a","b",">">>,   \* <tab>\nA||B\n</tab>
    <<"<","t","a","b",">","\n","\n","<","/","t","a","b",">">>,   \* <tab>\n\n</tab>
    <<"<","t","a","b",">","C","|","|","D","<","/","t","a","b",">">>,   \* <tab>C||D</tab>
    <<"\n">>,   \* \n
    <<"x">>   \* x
  >>

RECURSIVE Concat(_)
Concat(ss) == IF ss = <<>> THEN <<>> ELSE Head(ss) \o Concat(Tail(ss))

Bodies == UNION {[1..n -> 1..Len(Fragments)] : n \in 0..MaxFrags}

Sources == {p \o Concat([i \in 1..Len(b) |-> Fragments[b[i]]]) : p \in Prefixes, b \in Bodies}

\* sources digested with a descriptor that has no <title>
UntitledSources == {p \o Fragments[i] : p \in Prefixes, i \in 1..2}

\* the pagefname argument
pagefname == <<"P","g">>

\* files on disk: the .txt file and the .xml descriptor with its <title> and <categories>
GoodFiles(title, categories) ==
    [txt |-> "ok", xml |-> "ok", title |-> title, categories |-> categories]
BadFiles ==
    {[txt |-> a, xml |-> b, title |-> Some(<<"P","g">>), categories |-> {}] :
        a \in {"ok", "missing", "unreadable"}, b \in {"ok", "missing", "malformed"}}
    \ {GoodFiles(Some(<<"P","g">>), {})}

---------------------------------------------------------------------------
(* DigestPage (F3Page.py 355-508).                                         *)

\* F3Page.__init__
F3Page ==
    [Name |-> None, DisplayTitle |-> None, Redirect |-> None,
     Tags |-> TagSetInit(None, TRUE), Rawtags |-> TagSetInit(None, FALSE),
     OutgoingReferences |-> None, WindowsFilename |-> None, Table |-> <<>>,
     Source |-> None]

NothingConsumed == [displaytitle |-> {}, redirect |-> {}, category |-> {}, html |-> {}]

IdleTagSet == /\ ts = None /\ put = {} /\ tsRaised = FALSE
IdleNorm   == /\ nx = <<>> /\ ny = None /\ nz = None

Init ==
    /\ \/ /\ raw \in Sources
          /\ files = GoodFiles(Some(<<"P","g">>), {<<"f","a","n">>})
       \/ /\ raw \in UntitledSources
          /\ files = GoodFiles(None, {})
       \/ /\ raw = Fragments[3]
          /\ files \in BadFiles
    /\ pc = "start"
    /\ source = <<>>
    /\ src = <<>>
    /\ tab = None
    /\ isredirect = FALSE
    /\ links = <<>>
    /\ fp = F3Page
    /\ xmlFuture = "none"
    /\ srcFuture = "none"
    /\ result = "none"
    /\ consumed = NothingConsumed
    /\ refSpans = {}
    /\ passes = <<>>
    /\ IdleTagSet
    /\ IdleNorm

\* return None / return fp / an exception leaves the call
Return(what) == /\ pc' = "done"
                /\ result' = what

\* 357-367: the two isfile checks, then fp=F3Page()
CheckFiles ==
    /\ pc = "start"
    /\ IF files.txt = "missing" \/ files.xml = "missing"
       THEN /\ Return("absent")
            /\ UNCHANGED fp
       ELSE /\ pc' = "submitXML"
            /\ fp' = F3Page
            /\ UNCHANGED result
    /\ UNCHANGED <<files, raw, source, src, tab, isredirect, links, xmlFuture, srcFuture,
                   consumed, refSpans, passes>>
    /\ UNCHANGED <<tagVars, normVars>>

\* 378: executor.submit(LoadXML, pagePathXml)
SubmitLoadXML ==
    /\ pc = "submitXML"
    /\ xmlFuture' = "running"
    /\ pc' = "resultXML"
    /\ UNCHANGED <<files, raw, source, src, tab, isredirect, links, fp, srcFuture, result,
                   consumed, refSpans, passes>>
    /\ UNCHANGED <<tagVars, normVars>>

\* 370-372: the worker runs ET.parse, which raises on a descriptor that is not XML
LoadXML ==
    /\ xmlFuture = "running"
    /\ xmlFuture' = IF files.xml = "ok" THEN "done" ELSE "error"
    /\ UNCHANGED <<pc, files, raw, source, src, tab, isredirect, links, fp, srcFuture, result,
                   consumed, refSpans, passes>>
    /\ UNCHANGED <<tagVars, normVars>>

\* 378: .result() waits for the future and re-raises what the worker raised
ResultXML ==
    /\ pc = "resultXML"
    /\ xmlFuture \in {"done", "error"}
    /\ IF xmlFuture = "error" THEN Return("raised")
       ELSE /\ pc' = "submitSource"
            /\ UNCHANGED result
    /\ UNCHANGED <<files, raw, source, src, tab, isredirect, links, fp, xmlFuture, srcFuture,
                   consumed, refSpans, passes>>
    /\ UNCHANGED <<tagVars, normVars>>

\* 379: executor.submit(LoadSource, pagePathTxt)
SubmitLoadSource ==
    /\ pc = "submitSource"
    /\ srcFuture' = "running"
    /\ pc' = "resultSource"
    /\ UNCHANGED <<files, raw, source, src, tab, isredirect, links, fp, xmlFuture, result,
                   consumed, refSpans, passes>>
    /\ UNCHANGED <<tagVars, normVars>>

\* 373-376: the worker reads and decodes the file; open, read and decode can raise
LoadSource ==
    /\ srcFuture = "running"
    /\ srcFuture' = IF files.txt = "ok" THEN "done" ELSE "error"
    /\ UNCHANGED <<pc, files, raw, source, src, tab, isredirect, links, fp, xmlFuture, result,
                   consumed, refSpans, passes>>
    /\ UNCHANGED <<tagVars, normVars>>

\* 379: .result()
ResultSource ==
    /\ pc = "resultSource"
    /\ srcFuture \in {"done", "error"}
    /\ IF srcFuture = "error"
       THEN /\ Return("raised")
            /\ UNCHANGED source
       ELSE /\ pc' = "xml"
            /\ source' = Cells(raw)
            /\ UNCHANGED result
    /\ UNCHANGED <<files, raw, src, tab, isredirect, links, fp, xmlFuture, srcFuture,
                   consumed, refSpans, passes>>
    /\ UNCHANGED <<tagVars, normVars>>

\* 382-413: the descriptor's fields go into fp
ProcessXML ==
    /\ pc = "xml"
    /\ fp' = [fp EXCEPT !.Name = files.title,
                        !.Tags = TagSetAdd(@, files.categories),
                        !.WindowsFilename = Some(pagefname)]
    /\ pc' = "checkEmpty"
    /\ UNCHANGED <<files, raw, source, src, tab, isredirect, links, xmlFuture, srcFuture,
                   result, consumed, refSpans, passes>>
    /\ UNCHANGED <<tagVars, normVars>>

\* 418-420
CheckEmpty ==
    /\ pc = "checkEmpty"
    /\ IF Len(source) = 0
       THEN /\ Return("absent")
            /\ UNCHANGED fp
       ELSE /\ pc' = "displaytitle"
            /\ fp' = [fp EXCEPT !.Source = Some(Ch(source))]
            /\ UNCHANGED result
    /\ UNCHANGED <<files, raw, source, src, tab, isredirect, links, xmlFuture, srcFuture,
                   consumed, refSpans, passes>>
    /\ UNCHANGED <<tagVars, normVars>>

\* 423-425
DisplayTitlePass ==
    /\ pc = "displaytitle"
    /\ LET r == SearchAndReplace("displaytitle", source)
       IN  /\ source' = r.text
           /\ fp' = IF Len(r.found) = 1 THEN [fp EXCEPT !.DisplayTitle = Some(r.found[1])]
                    ELSE fp
           /\ consumed' = [consumed EXCEPT !.displaytitle = UNION {r.spans[i] : i \in 1..Len(r.spans)}]
    /\ passes' = Append(passes, "displaytitle")
    /\ pc' = "redirect"
    /\ UNCHANGED <<files, raw, src, tab, isredirect, links, xmlFuture, srcFuture, result,
                   refSpans>>
    /\ UNCHANGED <<tagVars, normVars>>

\* 430-434
RedirectPass ==
    /\ pc = "redirect"
    /\ LET r == SearchAndReplace("redirect", source)
       IN  /\ source' = r.text
           /\ IF Len(r.found) = 1
              THEN /\ fp' = [fp EXCEPT !.Redirect = Some(WikiRedirectToPagename(r.found[1]))]
                   /\ isredirect' = TRUE
              ELSE /\ isredirect' = FALSE
                   /\ UNCHANGED fp
           /\ consumed' = [consumed EXCEPT !.redirect = UNION {r.spans[i] : i \in 1..Len(r.spans)}]
    /\ passes' = Append(passes, "redirect")
    /\ pc' = "category"
    /\ UNCHANGED <<files, raw, src, tab, links, xmlFuture, srcFuture, result, refSpans>>
    /\ UNCHANGED <<tagVars, normVars>>

\* 441-442: the name with its sort key cut off
SortKeyCut(f) == IF HasPipe(f) THEN BeforePipe(f) ELSE f

\* 443-444: `f not in fp.Tags` raises IndexError on the empty name, and the Log line
\* raises TypeError when it concatenates fp.Name and the descriptor had no <title>
CrossCheckRaises(page, f) ==
    \/ TagSetContainsRaises(page.Tags, SortKeyCut(f))
    \/ (~TagSetContains(page.Tags, SortKeyCut(f)) /\ page.Name = None)

\* 445: what fp.Tags.add is handed
CategoryTags(found) == {found[i] : i \in 1..Len(found)}

\* 437-445
CategoryPass ==
    /\ pc = "category"
    /\ LET r == SearchAndReplace("category", source)
       IN  /\ source' = r.text
           /\ consumed' = [consumed EXCEPT !.category = UNION {r.spans[i] : i \in 1..Len(r.spans)}]
           /\ IF \E i \in 1..Len(r.found) : CrossCheckRaises(fp, r.found[i])
              THEN /\ Return("raised")
                   /\ UNCHANGED fp
              ELSE /\ fp' = IF Len(r.found) > 0
                            THEN [fp EXCEPT !.Tags = TagSetAdd(@, CategoryTags(r.found))]
                            ELSE fp
                   /\ pc' = "ifredirect"
                   /\ UNCHANGED result
    /\ passes' = Append(passes, "category")
    /\ UNCHANGED <<files, raw, src, tab, isredirect, links, xmlFuture, srcFuture, refSpans>>
    /\ UNCHANGED <<tagVars, normVars>>

\* 449-450
ReturnIfRedirect ==
    /\ pc = "ifredirect"
    /\ IF isredirect THEN Return("page")
       ELSE /\ pc' = "html"
            /\ UNCHANGED result
    /\ UNCHANGED <<files, raw, source, src, tab, isredirect, links, fp, xmlFuture, srcFuture,
                   consumed, refSpans, passes>>
    /\ UNCHANGED <<tagVars, normVars>>

\* 453
HtmlPass ==
    /\ pc = "html"
    /\ LET r == SearchAndReplace("html", source)
       IN  /\ source' = r.text
           /\ consumed' = [consumed EXCEPT !.html = UNION {r.spans[i] : i \in 1..Len(r.spans)}]
    /\ passes' = Append(passes, "html")
    /\ pc' = "tablefirst"
    /\ UNCHANGED <<files, raw, src, tab, isredirect, links, fp, xmlFuture, srcFuture, result,
                   refSpans>>
    /\ UNCHANGED <<tagVars, normVars>>

\* 459
TableFirst ==
    /\ pc = "tablefirst"
    /\ LET r == SearchAndExtractBounded(Ch(source))
       IN  /\ tab' = r.tab
           /\ src' = r.src
    /\ passes' = Append(passes, "table")
    /\ pc' = "tablewhile"
    /\ UNCHANGED <<files, raw, source, isredirect, links, fp, xmlFuture, srcFuture, result,
                   consumed, refSpans>>
    /\ UNCHANGED <<tagVars, normVars>>

\* 460-479: one turn of the while loop
TableLoop ==
    /\ pc = "tablewhile"
    /\ tab # None
    /\ fp' = [fp EXCEPT !.Table = @ \o TableOfRegion(tab[1])]
    /\ LET r == SearchAndExtractBounded(src)
       IN  /\ tab' = r.tab
           /\ src' = r.src
    /\ UNCHANGED <<pc, files, raw, source, isredirect, links, xmlFuture, srcFuture, result,
                   consumed, refSpans, passes>>
    /\ UNCHANGED <<tagVars, normVars>>

\* 460: the loop ends
TableDone ==
    /\ pc = "tablewhile"
    /\ tab = None
    /\ pc' = "links1"
    /\ UNCHANGED <<files, raw, source, src, tab, isredirect, links, fp, xmlFuture, srcFuture,
                   result, consumed, refSpans, passes>>
    /\ UNCHANGED <<tagVars, normVars>>

\* 491: the reference of a simple link
SimpleReference(linktext) ==
    F3Reference(Strip(linktext), pagefname, WikiUrlnameToWikiPagename(Strip(linktext)))

\* the two sides of the "|" taken the wrong way round
PipeReferenceSwapped(linktext) ==
    LET parts == Split(linktext, <<"|">>)
    IN  F3Reference(Strip(parts[1]), pagefname, WikiUrlnameToWikiPagename(Strip(parts[2])))

\* 499-503: the reference of a link with display text
PipeReference(linktext) ==
    LET parts == Split(linktext, <<"|">>)
    IN  F3Reference(Strip(parts[2]), pagefname, WikiUrlnameToWikiPagename(Strip(parts[1])))

\* 486-491
SimpleLinks ==
    /\ pc = "links1"
    /\ LET r == SearchAndReplace("simplelink", source)
       IN  /\ source' = r.text
           /\ links' = SetAddAll(<<>>, [i \in 1..Len(r.found) |-> SimpleReference(r.found[i])])
           /\ refSpans' = refSpans \cup {r.spans[i] : i \in 1..Len(r.spans)}
    /\ passes' = Append(passes, "link")
    /\ pc' = "links2"
    /\ UNCHANGED <<files, raw, src, tab, isredirect, fp, xmlFuture, srcFuture, result,
                   consumed>>
    /\ UNCHANGED <<tagVars, normVars>>

\* 495-505
PipeLinks ==
    /\ pc = "links2"
    /\ LET r == SearchAndReplace("pipelink", source)
       IN  /\ source' = r.text
           /\ links' = SetAddAll(links, [i \in 1..Len(r.found) |-> PipeReference(r.found[i])])
           /\ refSpans' = refSpans \cup {r.spans[i] : i \in 1..Len(r.spans)}
    /\ pc' = "return"
    /\ UNCHANGED <<files, raw, src, tab, isredirect, fp, xmlFuture, srcFuture, result,
                   consumed, passes>>
    /\ UNCHANGED <<tagVars, normVars>>

\* 507-508
ReturnPage ==
    /\ pc = "return"
    /\ \E l \in ListsOf(links) : fp' = [fp EXCEPT !.OutgoingReferences = Some(l)]
    /\ Return("page")
    /\ UNCHANGED <<files, raw, source, src, tab, isredirect, links, xmlFuture, srcFuture,
                   consumed, refSpans, passes>>
    /\ UNCHANGED <<tagVars, normVars>>

Next ==
    \/ CheckFiles
    \/ SubmitLoadXML
    \/ LoadXML
    \/ ResultXML
    \/ SubmitLoadSource
    \/ LoadSource
    \/ ResultSource
    \/ ProcessXML
    \/ CheckEmpty
    \/ DisplayTitlePass
    \/ RedirectPass
    \/ CategoryPass
    \/ ReturnIfRedirect
    \/ HtmlPass
    \/ TableFirst
    \/ TableLoop
    \/ TableDone
    \/ SimpleLinks
    \/ PipeLinks
    \/ ReturnPage

Spec == Init /\ [][Next]_vars

---------------------------------------------------------------------------
(* A TagSet object under its public methods.                               *)

\* the strings handed to the TagSet
TagValues ==
  {
    <<"u","s">>,   \* us
    <<"U","S">>,   \* US
    <<"U","s">>,   \* Us
    <<"f","a","n">>,   \* fan
    <<"u","_","s">>,   \* u_s
    <<>>   \* the empty string
  }

IdleDigest ==
    /\ pc = "idle"
    /\ files = GoodFiles(None, {})
    /\ raw = <<>>
    /\ source = <<>>
    /\ src = <<>>
    /\ tab = None
    /\ isredirect = FALSE
    /\ links = <<>>
    /\ fp = F3Page
    /\ xmlFuture = "none"
    /\ srcFuture = "none"
    /\ result = "none"
    /\ consumed = NothingConsumed
    /\ refSpans = {}
    /\ passes = <<>>

InitTag ==
    /\ ts = None
    /\ put = {}
    /\ tsRaised = FALSE
    /\ IdleDigest
    /\ IdleNorm

\* TagSet(tag, Normalized)
TagSetConstruct ==
    /\ ts = None
    /\ \E tag \in {None} \cup {Some(v) : v \in TagValues}, Normalized \in BOOLEAN :
          /\ ts' = Some(TagSetInit(tag, Normalized))
          /\ put' = IF tag = None THEN {} ELSE {tag[1]}
    /\ UNCHANGED <<tsRaised, digestVars, normVars>>

\* what add does with the set of values vals
AddValues(vals) ==
    IF TagSetAddRaises(ts[1], vals)
    THEN /\ tsRaised' = TRUE
         /\ UNCHANGED <<ts, put>>
    ELSE /\ ts' = Some(TagSetAdd(ts[1], vals))
         /\ put' = put \cup vals
         /\ UNCHANGED tsRaised

\* add(val) with a single str
TagSetAddStr ==
    /\ ts # None
    /\ \E v \in TagValues : AddValues({v})
    /\ UNCHANGED <<digestVars, normVars>>

\* add(val) with a list: set(val) is taken first
TagSetAddList ==
    /\ ts # None
    /\ \E v, w \in TagValues : AddValues({<<v, w>>[i] : i \in 1..2})
    /\ UNCHANGED <<digestVars, normVars>>

\* add(val) with a set
TagSetAddSet ==
    /\ ts # None
    /\ \E vals \in SUBSET TagValues : Cardinality(vals) <= 2 /\ AddValues(vals)
    /\ UNCHANGED <<digestVars, normVars>>

NextTag ==
    \/ TagSetConstruct
    \/ TagSetAddStr
    \/ TagSetAddList
    \/ TagSetAddSet

SpecTag == InitTag /\ [][NextTag]_vars

---------------------------------------------------------------------------
(* normalize applied once and twice.                                       *)

MaxTagLen == 3

TagAlphabet == {"u", "U", "s", "k", "_", " "}

\* arguments that reach every line of the override table
OverrideInputs ==
  {
    <<"u","k">>,   \* uk
    <<"U","k">>,   \* Uk
    <<"n","z">>,   \* nz
    <<"N","z">>,   \* Nz
    <<"a","p","a">>,   \* apa
    <<"A","p","a">>,   \* Apa
    <<"i","a">>,   \* ia
    <<"I","a">>,   \* Ia
    <<"f","i","r","s","t","_","f","a","n","d","o","m">>,   \* first_fandom
    <<"F","i","r","s","t"," ","f","a","n","d","o","m">>,   \* First fandom
    <<"f","i","r","s","t"," ","f","a","n","d","o","m">>,   \* first fandom
    <<"F","i","r","s","t"," ","F","a","n","d","o","m">>,   \* First Fandom
    <<"_","u","s">>   \* _us
  }

NormInputs == UNION {[1..n -> TagAlphabet] : n \in 0..MaxTagLen} \cup OverrideInputs

InitNorm ==
    /\ nx \in NormInputs
    /\ ny = None
    /\ nz = None
    /\ IdleDigest
    /\ IdleTagSet

\* y = normalize(x)
NormalizeOnce ==
    /\ ny = None
    /\ ny' = Some(normalize(nx))
    /\ UNCHANGED <<nx, nz, digestVars, tagVars>>

\* z = normalize(y), when the first call returned
NormalizeTwice ==
    /\ ny # None
    /\ ny[1] # IndexError
    /\ nz = None
    /\ nz' = Some(normalize(ny[1]))
    /\ UNCHANGED <<nx, ny, digestVars, tagVars>>

NextNorm ==
    \/ NormalizeOnce
    \/ NormalizeTwice

SpecNorm == InitNorm /\ [][NextNorm]_vars

---------------------------------------------------------------------------
(* The properties.                                                         *)

Returned == pc = "done" /\ result = "page"

\* the text T of the directive "#redirect [[T]]" the str s starts with, or None
DirectiveEnds(s, p) == {e \in (p + 3)..Len(s) : LitAt(s, e, CloseLit, FALSE)}
DirectiveText(s, p, ends) ==
    IF ends # {} /\ NoNewline(s, p + 2, Min(ends) - 1)
    THEN Some(SubStr(s, p + 2, Min(ends) - 1)) ELSE None
DirectiveFrom(s, p) ==
    IF LitAt(s, p, OpenLit, FALSE) THEN DirectiveText(s, p, DirectiveEnds(s, p)) ELSE None
DirectiveTarget(s) ==
    IF LitAt(s, 1, RedirectLit, TRUE) THEN DirectiveFrom(s, SkipSpace(s, 1 + Len(RedirectLit)))
    ELSE None

\* C1: when both files load and the source starts with "#redirect [[T]]" in any letter case,
\* the call returns a page whose Redirect is the canonicalized T and which has no table and
\* no outgoing reference, whatever follows the directive.
C1_RedirectShortCircuit ==
    (pc = "done" /\ files.txt = "ok" /\ files.xml = "ok" /\ DirectiveTarget(raw) # None) =>
        /\ result = "page"
        /\ fp.Redirect = Some(WikiRedirectToPagename(DirectiveTarget(raw)[1]))
        /\ fp.Table = <<>>
        /\ fp.OutgoingReferences = None

\* C2: category extraction puts NAME without its "|KEY" into the tags: no tag of a returned
\* page holds a "|".
C2_SortKeyStripped ==
    Returned => \A tag \in fp.Tags.set : ~HasPipe(tag)

\* C3: every entry of the table sequence of a returned page is a table with a header row and
\* at least one data row.
C3_TablesHaveHeaderAndRow ==
    Returned => \A i \in 1..Len(fp.Table) :
                    /\ fp.Table[i] # None
                    /\ fp.Table[i][1].Headers # None
                    /\ fp.Table[i][1].Rows # None
                    /\ Len(fp.Table[i][1].Rows[1]) >= 1

\* C4: no exception leaves DigestPage, and it returns None when a file is missing or
\* unreadable, when the descriptor is malformed and when the source is empty.
C4_FailureSignalling ==
    /\ result # "raised"
    /\ (pc = "done" /\ (files.txt # "ok" \/ files.xml # "ok" \/ raw = <<>>)) => result = "absent"

\* C5: in a normalized TagSet, x is a member exactly when normalize(x) = normalize(v) for a
\* value v given to the constructor or to add.
C5_MembershipRespectsNormalization ==
    (ts # None /\ ts[1].normalized) =>
        \A x \in TagValues \ {<<>>} :
            TagSetContains(ts[1], x) <=> \E v \in put : normalize(x) = normalize(v)

\* C6: normalize returns a str for every str, the empty one included, and
\* normalize(normalize(x)) = normalize(x).
C6_NormalizeIdempotent ==
    /\ ny # None => ny[1] # IndexError
    /\ nz # None => nz = ny

\* C7: the outgoing references of a returned page hold no two references equal in all four
\* fields.
C7_NoDuplicateReferences ==
    (Returned /\ fp.OutgoingReferences # None) =>
        \A i, j \in 1..Len(fp.OutgoingReferences[1]) :
            i # j => fp.OutgoingReferences[1][i] # fp.OutgoingReferences[1][j]

\* a page was returned on which more bracket spans gave a reference than there are references
C7_Witness ==
    /\ Returned
    /\ fp.OutgoingReferences # None
    /\ Len(fp.OutgoingReferences[1]) >= 1
    /\ Cardinality(refSpans) > Len(fp.OutgoingReferences[1])

\* the lines of a region that are not empty, and the cells of one line
NonBlank(region) == SelectSeq(Split(region, NewlineLit), LAMBDA l : l # <<>>)
RowOf(line) == [i \in 1..Len(Split(line, CellSepLit)) |-> Strip(Split(line, CellSepLit)[i])]
ParsedTable(nb) ==
    [Headers |-> Some(RowOf(nb[1])), Rows |-> Some([i \in 1..(Len(nb) - 1) |-> RowOf(nb[i + 1])])]

IsLinkText(s, a, b) == a <= b /\ \A k \in a..b : s[k] \notin {"[", "]", "|"}
SimpleSpans(s) ==
    {sp \in (1..Len(s)) \X (1..Len(s)) :
        /\ LitAt(s, sp[1], OpenLit, FALSE) /\ LitAt(s, sp[2], CloseLit, FALSE)
        /\ IsLinkText(s, sp[1] + 2, sp[2] - 1)}
PipeSpans(s) ==
    {sp \in (1..Len(s)) \X (1..Len(s)) \X (1..Len(s)) :
        /\ LitAt(s, sp[1], OpenLit, FALSE) /\ LitAt(s, sp[3], CloseLit, FALSE)
        /\ s[sp[2]] = "|"
        /\ IsLinkText(s, sp[1] + 2, sp[2] - 1) /\ IsLinkText(s, sp[2] + 1, sp[3] - 1)}

HoldsOnce(refs, ref) == Cardinality({n \in 1..Len(refs) : refs[n] = ref}) = 1

\* the link passes keep what they have and the list returned is the set built
LinksKept ==
    /\ pc = "links2" => \A n \in 1..Len(links) : HoldsOnce(links', links[n])
    /\ pc = "return" => /\ fp'.OutgoingReferences # None
                        /\ Len(fp'.OutgoingReferences[1]) = Len(links)
                        /\ \A n \in 1..Len(links) : HoldsOnce(fp'.OutgoingReferences[1], links[n])

PassOrder == <<"displaytitle", "redirect", "category", "html", "table", "link">>

\* the indices of s inside a [[html]]...[[/html]] block, its two tags included
HtmlBlocks(s) ==
    {b \in (1..Len(s)) \X (1..Len(s)) :
        /\ LitAt(s, b[1], HtmlOpenLit, TRUE)
        /\ b[2] >= b[1] + Len(HtmlOpenLit)
        /\ LitAt(s, b[2], HtmlCloseLit, TRUE)
        /\ \A e \in (b[1] + Len(HtmlOpenLit))..(b[2] - 1) : ~LitAt(s, e, HtmlCloseLit, TRUE)}
HtmlBlockIdx(s) == UNION {b[1]..(b[2] + Len(HtmlCloseLit) - 1) : b \in HtmlBlocks(s)}

\* C10: the passes run in the order of PassOrder, and no reference is built from a bracket
\* span that was removed as a redirect directive or as a category statement or that lay
\* inside a [[html]]...[[/html]] block of the source.
C10_PassOrder ==
    /\ Len(passes) <= Len(PassOrder)
    /\ \A n \in 1..Len(passes) : passes[n] = PassOrder[n]
    /\ \A sp \in refSpans :
          sp \cap (consumed.redirect \cup consumed.category \cup HtmlBlockIdx(raw)) = {}

\* a load is in flight from its submit until its worker has finished
BothInFlight == xmlFuture = "running" /\ srcFuture = "running"

\* C11: the descriptor load and the source load are both forked before either is joined:
\* when the call waits for the descriptor load's result, the source load has been submitted.
C11_ConcurrentLoads ==
    pc = "resultXML" => srcFuture # "none"

\* what the code does instead: the two loads are never in flight at the same time
LoadsNeverOverlap == ~BothInFlight

=============================================================================
